---- MODULE Spec2Model ----
(***************************************************************************)
(* A model of the PyPI upload plugin (src/plugin.go).                      *)
(*                                                                         *)
(* Strings are sequences of atoms.  An atom is a single character for all  *)
(* data the program inspects character by character (URLs, paths,          *)
(* versions, credentials, command-line arguments), and a whole literal for *)
(* the fixed message texts of the program, whose interior no code path     *)
(* inspects.  Concatenation is \o, so fmt.Sprintf is the concatenation of  *)
(* its format's literal pieces with its operands.                          *)
(***************************************************************************)
EXTENDS Integers, Sequences, FiniteSets, TLC

VARIABLES
    pc,         \* "idle" between calls, "done" when a call has returned
    op,         \* the entry point of the call that returned last
    req,        \* the plugin.ExecuteRequest of the call
    env,        \* the process environment: PYPI_USERNAME, PYPI_PASSWORD
    resolver,   \* what net.LookupIP answered in the call (NotAsked if not called)
    executor,   \* what the subprocess returned in the call (NotRun if not run)
    resp,       \* the response of the call
    runCalls,   \* the executor's recorded calls (MockCommandExecutor.RunCalls)
    lookups,    \* the hosts handed to net.LookupIP during the call
    arg,        \* the argument of a direct call of a helper function
    ret,        \* the result of that call
    ctx         \* the caller's context.Context: "active" or "canceled"

vars == <<pc, op, req, env, resolver, executor, resp, runCalls, lookups, arg, ret,
          ctx>>

\* ------------------------------------------------------------------------
\* Bounds of the model
\* ------------------------------------------------------------------------

\* the longest answer (number of addresses) the resolver returns
MaxIPs == 2

\* ------------------------------------------------------------------------
\* strings
\* ------------------------------------------------------------------------

LowerLetters == <<"a","b","c","d","e","f","g","h","i","j","k","l","m",
                  "n","o","p","q","r","s","t","u","v","w","x","y","z">>

UpperLetters == <<"A","B","C","D","E","F","G","H","I","J","K","L","M",
                  "N","O","P","Q","R","S","T","U","V","W","X","Y","Z">>

Digits == {"0","1","2","3","4","5","6","7","8","9"}

Range(s) == {s[i] : i \in DOMAIN s}

\* The(S) is the element of a singleton set S.  The({F(x) : x \in {e}}) is
\* F(e) with e computed once, which is how the functions below bind the
\* local values they read more than once.
The(S) == CHOOSE x \in S : TRUE

IsLetter(c) == c \in Range(LowerLetters) \cup Range(UpperLetters)

\* strings.ToLower on one byte
LowerChar(c) ==
    IF \E i \in DOMAIN UpperLetters : UpperLetters[i] = c
    THEN LowerLetters[CHOOSE i \in DOMAIN UpperLetters : UpperLetters[i] = c]
    ELSE c

ToLower(s) == [i \in DOMAIN s |-> LowerChar(s[i])]

\* strings.HasPrefix / strings.HasSuffix / strings.Contains
HasPrefix(s, p) == Len(p) <= Len(s) /\ SubSeq(s, 1, Len(p)) = p

HasSuffix(s, p) == Len(p) <= Len(s) /\ SubSeq(s, Len(s) - Len(p) + 1, Len(s)) = p

Contains(s, p) ==
    \E i \in 1..(Len(s) - Len(p) + 1) : SubSeq(s, i, i + Len(p) - 1) = p

\* strings.TrimPrefix: removes the prefix once when present
\* a variant that removes the prefix as often as it stands in front
TrimPrefix_Repeated(s, p) ==
    LET n == CHOOSE k \in 0..Len(s) :
                 /\ \A i \in 1..k : s[i] = p[1]
                 /\ (k < Len(s) => s[k + 1] # p[1])
    IN  IF Len(p) = 1 THEN SubSeq(s, n + 1, Len(s))
        ELSE IF HasPrefix(s, p) THEN SubSeq(s, Len(p) + 1, Len(s)) ELSE s

TrimPrefix(s, p) == IF HasPrefix(s, p) THEN SubSeq(s, Len(p) + 1, Len(s)) ELSE s

\* strings.Index / strings.LastIndex for a one-byte separator; 0 when absent
\* (positions are 1-based here, Go's are 0-based with -1 for absent)
Index(s, c) ==
    IF \E i \in DOMAIN s : s[i] = c
    THEN CHOOSE i \in DOMAIN s : s[i] = c /\ \A j \in 1..(i - 1) : s[j] # c
    ELSE 0

LastIndex(s, c) ==
    IF \E i \in DOMAIN s : s[i] = c
    THEN CHOOSE i \in DOMAIN s : s[i] = c /\ \A j \in (i + 1)..Len(s) : s[j] # c
    ELSE 0

\* strings.ReplaceAll(s, c, "") for a one-byte c
\* a variant that removes nothing
RemoveAll_Nothing(s, c) == s

RemoveAll(s, c) == SelectSeq(s, LAMBDA x : x # c)

\* a Go error value: nil, or an error with its text
NilError == [isNil |-> TRUE, msg |-> <<>>]

Errorf(m) == [isNil |-> FALSE, msg |-> m]

\* ------------------------------------------------------------------------
\* net/url as the validator uses it: url.Parse and (*URL).Hostname
\* ------------------------------------------------------------------------

\* url.getScheme: the scheme is the text before the first ':' when that text
\* is a letter followed by letters, digits, '+', '-' and '.'
getScheme(rawURL) ==
    The({ IF bad = {} THEN [scheme |-> <<>>, rest |-> rawURL, ok |-> TRUE]
          ELSE The({ IF rawURL[i] # ":"
                     THEN [scheme |-> <<>>, rest |-> rawURL, ok |-> TRUE]
                     ELSE IF i = 1
                     THEN [scheme |-> <<>>, rest |-> <<>>, ok |-> FALSE]
                     ELSE [scheme |-> SubSeq(rawURL, 1, i - 1),
                           rest |-> SubSeq(rawURL, i + 1, Len(rawURL)),
                           ok |-> TRUE]
                   : i \in {CHOOSE k \in bad : \A j \in bad : k <= j} })
        : bad \in { {i \in DOMAIN rawURL :
                        ~ (IsLetter(rawURL[i])
                           \/ (i > 1 /\ rawURL[i] \in Digits \cup {"+", "-", "."}))} } })

\* url.validOptionalPort: "" or ':' followed by digits only
validOptionalPort(port) ==
    \/ port = <<>>
    \/ /\ port[1] = ":"
       /\ \A i \in 2..Len(port) : port[i] \in Digits

\* the bytes url.unescape leaves alone in a host (shouldEscape, encodeHost)
HostChars ==
    Range(LowerLetters) \cup Range(UpperLetters) \cup Digits
    \cup {"-", "_", ".", "~"}
    \cup {"!", "$", "&", "'", "(", ")", "*", "+", ",", ";", "=", ":", "[", "]",
          "<", ">", "\""}

\* url.validUserinfo
UserinfoChars ==
    Range(LowerLetters) \cup Range(UpperLetters) \cup Digits
    \cup {"-", ".", "_", ":", "~", "!", "$", "&", "'", "(", ")", "*", "+", ",",
          ";", "=", "%", "@"}

\* url.parseHost: TRUE when the host part is well formed
parseHostOk(host) ==
    /\ IF HasPrefix(host, <<"[">>)
       THEN LET i == LastIndex(host, "]")
            IN  i # 0 /\ validOptionalPort(SubSeq(host, i + 1, Len(host)))
       ELSE LET i == LastIndex(host, ":")
            IN  i # 0 => validOptionalPort(SubSeq(host, i, Len(host)))
    /\ \A i \in DOMAIN host : host[i] \in HostChars

\* url.parseAuthority: the host is what follows the last '@'
parseAuthority(authority) ==
    The({ [host |-> SubSeq(authority, i + 1, Len(authority)),
           ok |-> /\ parseHostOk(SubSeq(authority, i + 1, Len(authority)))
                  /\ i # 0 => \A j \in 1..(i - 1) : authority[j] \in UserinfoChars]
        : i \in {LastIndex(authority, "@")} })

\* the text before the first occurrence of c (all of s when c is absent)
Before(s, c) == IF Index(s, c) = 0 THEN s ELSE SubSeq(s, 1, Index(s, c) - 1)

\* url.Parse: fragment and query are cut off, the scheme is lower-cased, a
\* rest that starts with "//" carries an authority up to the next '/'
urlParse(rawURL) ==
    The({ IF ~ gs.ok THEN [ok |-> FALSE, Scheme |-> <<>>, Host |-> <<>>]
          ELSE IF Before(rawURL, "#") = <<"*">>
          THEN [ok |-> TRUE, Scheme |-> <<>>, Host |-> <<>>]
          ELSE IF ~ HasPrefix(rest, <<"/">>) /\ gs.scheme # <<>>
          THEN [ok |-> TRUE, Scheme |-> ToLower(gs.scheme), Host |-> <<>>]
          ELSE IF ~ HasPrefix(rest, <<"/">>) /\ Contains(Before(rest, "/"), <<":">>)
          THEN [ok |-> FALSE, Scheme |-> <<>>, Host |-> <<>>]
          ELSE IF /\ gs.scheme # <<>> \/ ~ HasPrefix(rest, <<"/", "/", "/">>)
                  /\ HasPrefix(rest, <<"/", "/">>)
          THEN The({ IF a.ok
                     THEN [ok |-> TRUE, Scheme |-> ToLower(gs.scheme), Host |-> a.host]
                     ELSE [ok |-> FALSE, Scheme |-> <<>>, Host |-> <<>>]
                   : a \in {parseAuthority(Before(SubSeq(rest, 3, Len(rest)), "/"))} })
          ELSE [ok |-> TRUE, Scheme |-> ToLower(gs.scheme), Host |-> <<>>]
        : gs \in {getScheme(Before(rawURL, "#"))},
          rest \in {Before(getScheme(Before(rawURL, "#")).rest, "?")} })

\* (*URL).Hostname: the host without a valid port and without its brackets
Hostname(Host) ==
    The({ IF HasPrefix(h, <<"[">>) /\ HasSuffix(h, <<"]">>)
          THEN SubSeq(h, 2, Len(h) - 1)
          ELSE h
        : h \in { IF /\ LastIndex(Host, ":") # 0
                     /\ validOptionalPort(SubSeq(Host, LastIndex(Host, ":"), Len(Host)))
                  THEN SubSeq(Host, 1, LastIndex(Host, ":") - 1)
                  ELSE Host } })

\* ------------------------------------------------------------------------
\* net.IP: an address is its bytes, 4 of them (IPv4) or 16 (IPv6)
\* ------------------------------------------------------------------------

Zeros(n) == [i \in 1..n |-> 0]

\* IP.To4: the 4-byte form of an IPv4 or IPv4-mapped address, <<>> for nil
To4(ip) ==
    IF Len(ip) = 4 THEN ip
    ELSE IF /\ Len(ip) = 16
            /\ SubSeq(ip, 1, 10) = Zeros(10)
            /\ ip[11] = 255
            /\ ip[12] = 255
    THEN SubSeq(ip, 13, 16)
    ELSE <<>>

Pow2(n) == IF n = 0 THEN 1 ELSE IF n = 1 THEN 2 ELSE IF n = 2 THEN 4
           ELSE IF n = 3 THEN 8 ELSE IF n = 4 THEN 16 ELSE IF n = 5 THEN 32
           ELSE IF n = 6 THEN 64 ELSE IF n = 7 THEN 128 ELSE 256

\* how many leading bits of byte i a prefix of `bits` bits covers
MaskBits(bits, i) ==
    LET k == bits - 8 * (i - 1) IN IF k < 0 THEN 0 ELSE IF k > 8 THEN 8 ELSE k

\* a & mask = b & mask for a mask of k leading one bits
SameUnderMask(a, b, k) == (a \div Pow2(8 - k)) = (b \div Pow2(8 - k))

\* (*IPNet).Contains for the block parsed from a CIDR text
CIDRContains(block, ip) ==
    LET x == IF To4(ip) # <<>> THEN To4(ip) ELSE ip
    IN  /\ Len(x) = Len(block.ip)
        /\ \A i \in DOMAIN x :
              SameUnderMask(block.ip[i], x[i], MaskBits(block.bits, i))

IPv6loopback == Zeros(15) \o <<1>>

\* IP.IsLoopback, IP.IsLinkLocalUnicast, IP.IsLinkLocalMulticast, IP.IsPrivate
IsLoopback(ip) ==
    IF To4(ip) # <<>> THEN To4(ip)[1] = 127 ELSE ip = IPv6loopback

IsLinkLocalUnicast(ip) ==
    IF To4(ip) # <<>> THEN To4(ip)[1] = 169 /\ To4(ip)[2] = 254
    ELSE Len(ip) = 16 /\ ip[1] = 254 /\ SameUnderMask(ip[2], 128, 2)

IsLinkLocalMulticast(ip) ==
    IF To4(ip) # <<>>
    THEN To4(ip)[1] = 224 /\ To4(ip)[2] = 0 /\ To4(ip)[3] = 0
    ELSE Len(ip) = 16 /\ ip[1] = 255 /\ ip[2] % 16 = 2

IsPrivate(ip) ==
    IF To4(ip) # <<>>
    THEN \/ To4(ip)[1] = 10
         \/ To4(ip)[1] = 172 /\ SameUnderMask(To4(ip)[2], 16, 4)
         \/ To4(ip)[1] = 192 /\ To4(ip)[2] = 168
    ELSE Len(ip) = 16 /\ SameUnderMask(ip[1], 252, 7)

\* a variant of the list without the block 0.0.0.0/8
privateRanges_NoZeroNet ==
    << [ip |-> <<10, 0, 0, 0>>, bits |-> 8],
       [ip |-> <<172, 16, 0, 0>>, bits |-> 12],
       [ip |-> <<192, 168, 0, 0>>, bits |-> 16],
       [ip |-> <<127, 0, 0, 0>>, bits |-> 8],
       [ip |-> <<169, 254, 0, 0>>, bits |-> 16] >>

privateRanges ==
    << [ip |-> <<10, 0, 0, 0>>, bits |-> 8],
       [ip |-> <<172, 16, 0, 0>>, bits |-> 12],
       [ip |-> <<192, 168, 0, 0>>, bits |-> 16],
       [ip |-> <<127, 0, 0, 0>>, bits |-> 8],
       [ip |-> <<169, 254, 0, 0>>, bits |-> 16],
       [ip |-> <<0, 0, 0, 0>>, bits |-> 8] >>

cloudMetadata ==
    << [ip |-> <<169, 254, 169, 254>>, bits |-> 32],
       [ip |-> <<253, 0, 14, 194, 0, 0, 0, 0, 0, 0, 0, 0, 0, 0, 2, 84>>,
        bits |-> 128] >>

\* isPrivateIP: the address lies in a listed block or is loopback,
\* link-local or private by the address-family predicates
isPrivateIP(ip) ==
    LET allRanges == privateRanges \o cloudMetadata
    IN  \/ \E i \in DOMAIN allRanges : CIDRContains(allRanges[i], ip)
        \/ IsLoopback(ip)
        \/ IsLinkLocalUnicast(ip)
        \/ IsLinkLocalMulticast(ip)
        \/ IsPrivate(ip)

\* ------------------------------------------------------------------------
\* validateRepositoryURL.  The resolver's answer for the host is given as
\* `answer` = [err, ips]; the result says whether net.LookupIP was called.
\* ------------------------------------------------------------------------

LOCALHOST == <<"l","o","c","a","l","h","o","s","t">>

LOOPBACK4 == <<"1","2","7",".","0",".","0",".","1">>

LOOPBACK6 == <<":",":","1">>

HTTP == <<"h","t","t","p">>

HTTPS == <<"h","t","t","p","s">>

\* a variant that takes every host starting with "localhost" as local
isLocalhostHost_Prefix(host) ==
    HasPrefix(host, LOCALHOST) \/ host = LOOPBACK4 \/ host = LOOPBACK6

\* a variant that does not know the IPv6 loopback text
isLocalhostHost_NoV6(host) == host = LOCALHOST \/ host = LOOPBACK4

\* line 215: the hosts taken as local, by their text
isLocalhostHost(host) == host = LOCALHOST \/ host = LOOPBACK4 \/ host = LOOPBACK6

\* a variant that lets every scheme through the second scheme check
schemeAllowed_Any(scheme) == TRUE

\* line 223: the schemes allowed at all
schemeAllowed(scheme) == scheme = HTTP \/ scheme = HTTPS

URLResult(err, looked) == [err |-> err, lookedUp |-> looked]

\* a variant that classifies only the first resolved address
validateRepositoryURL_FirstAddressOnly(rawURL, answer) ==
    The({ IF rawURL = <<>>
          THEN URLResult(Errorf(<<"repository URL cannot be empty">>), <<>>)
          ELSE IF ~ parsedURL.ok
          THEN URLResult(Errorf(<<"invalid URL: ", "parse error">>), <<>>)
          ELSE The({
               IF parsedURL.Scheme # HTTPS /\ ~ isLocalhostHost(host)
               THEN URLResult(Errorf(<<"only HTTPS URLs are allowed", " (got ">>
                                     \o parsedURL.Scheme \o <<")">>), <<>>)
               ELSE IF ~ schemeAllowed(parsedURL.Scheme)
               THEN URLResult(Errorf(<<"only HTTP(S) URLs are allowed", " (got ">>
                                     \o parsedURL.Scheme \o <<")">>), <<>>)
               ELSE IF isLocalhostHost(host)
               THEN URLResult(NilError, <<>>)
               ELSE IF ~ answer.err.isNil
               THEN URLResult(Errorf(<<"failed to resolve hostname", ": ">>
                                     \o answer.err.msg),
                              <<host>>)
               ELSE IF answer.ips # <<>> /\ isPrivateIP(answer.ips[1])
               THEN URLResult(Errorf(<<"URLs pointing to private networks are not allowed">>),
                              <<host>>)
               ELSE URLResult(NilError, <<host>>)
             : host \in {Hostname(parsedURL.Host)} })
        : parsedURL \in {urlParse(rawURL)} })

validateRepositoryURL(rawURL, answer) ==
    The({ IF rawURL = <<>>
          THEN URLResult(Errorf(<<"repository URL cannot be empty">>), <<>>)
          ELSE IF ~ parsedURL.ok
          THEN URLResult(Errorf(<<"invalid URL: ", "parse error">>), <<>>)
          ELSE The({
               IF parsedURL.Scheme # HTTPS /\ ~ isLocalhostHost(host)
               THEN URLResult(Errorf(<<"only HTTPS URLs are allowed", " (got ">>
                                     \o parsedURL.Scheme \o <<")">>), <<>>)
               ELSE IF ~ schemeAllowed(parsedURL.Scheme)
               THEN URLResult(Errorf(<<"only HTTP(S) URLs are allowed", " (got ">>
                                     \o parsedURL.Scheme \o <<")">>), <<>>)
               ELSE IF isLocalhostHost(host)
               THEN URLResult(NilError, <<>>)
               ELSE IF ~ answer.err.isNil
               THEN URLResult(Errorf(<<"failed to resolve hostname", ": ">>
                                     \o answer.err.msg),
                              <<host>>)
               ELSE IF \E i \in DOMAIN answer.ips : isPrivateIP(answer.ips[i])
               THEN URLResult(Errorf(<<"URLs pointing to private networks are not allowed">>),
                              <<host>>)
               ELSE URLResult(NilError, <<host>>)
             : host \in {Hostname(parsedURL.Host)} })
        : parsedURL \in {urlParse(rawURL)} })

\* ------------------------------------------------------------------------
\* validateDistPath
\* ------------------------------------------------------------------------

MaxDistPathLen == 256

\* the atom that stands for a character outside ASCII, which UTF-8 encodes
\* in two bytes
EACUTE == "e-acute"

\* a variant that counts characters
ByteLen_Characters(s) == Len(s)

\* len(s) of a Go string: its length in bytes
ByteLen(s) == Len(s) + Cardinality({i \in DOMAIN s : s[i] = EACUTE})

\* a variant of the pattern that also admits the space
distPathChars_WithSpace ==
    Range(LowerLetters) \cup Range(UpperLetters) \cup Digits
    \cup {".", "_", "/", "*", "-", " "}

\* distPathPattern, ^[a-zA-Z0-9._/*-]+$ : the bytes it admits
distPathChars ==
    Range(LowerLetters) \cup Range(UpperLetters) \cup Digits
    \cup {".", "_", "/", "*", "-"}

distPathPatternMatch(path) ==
    path # <<>> /\ \A i \in DOMAIN path : path[i] \in distPathChars

\* the elements of a path between its separators, empty ones included
SplitPath(path) ==
    LET cuts == {0, Len(path) + 1} \cup {i \in DOMAIN path : path[i] = "/"}
        cut(k) == CHOOSE c \in cuts : Cardinality({d \in cuts : d < c}) = k - 1
    IN  [k \in 1..(Cardinality(cuts) - 1) |->
            SubSeq(path, cut(k) + 1, cut(k + 1) - 1)]

DOTDOT == <<".", ".">>

\* one step of filepath.Clean's walk over the elements: "" and "." are
\* dropped, ".." removes the element before it, or stays when there is none
\* to remove and the path is not rooted
CleanStep(out, e, rooted) ==
    IF e = <<>> \/ e = <<".">> THEN out
    ELSE IF e = DOTDOT
    THEN IF out # <<>> /\ out[Len(out)] # DOTDOT
         THEN SubSeq(out, 1, Len(out) - 1)
         ELSE IF rooted THEN out
         ELSE Append(out, e)
    ELSE Append(out, e)

CleanElems(elems, rooted) ==
    LET walk[k \in 0..Len(elems)] ==
            IF k = 0 THEN <<>> ELSE CleanStep(walk[k - 1], elems[k], rooted)
    IN  walk[Len(elems)]

\* strings.Join(elems, "/")
JoinPath(elems) ==
    LET join[k \in 0..Len(elems)] ==
            IF k = 0 THEN <<>>
            ELSE IF k = 1 THEN elems[1]
            ELSE join[k - 1] \o <<"/">> \o elems[k]
    IN  join[Len(elems)]

\* filepath.Clean with '/' as the separator
filepathClean(path) ==
    LET rooted == HasPrefix(path, <<"/">>)
        body == JoinPath(CleanElems(SplitPath(path), rooted))
    IN  IF rooted THEN <<"/">> \o body
        ELSE IF body = <<>> THEN <<".">>
        ELSE body

\* a variant that takes no path as absolute
filepathIsAbs_Never(path) == FALSE

\* filepath.IsAbs with '/' as the separator
filepathIsAbs(path) == HasPrefix(path, <<"/">>)

\* a variant without the traversal check
validateDistPath_NoTraversalCheck(path) ==
    IF path = <<>>
    THEN Errorf(<<"dist path cannot be empty">>)
    ELSE IF ByteLen(path) > MaxDistPathLen
    THEN Errorf(<<"dist path too long (max 256 characters)">>)
    ELSE IF ~ distPathPatternMatch(path)
    THEN Errorf(<<"dist path contains invalid characters">>)
    ELSE IF filepathIsAbs(path)
    THEN Errorf(<<"absolute paths are not allowed">>)
    ELSE NilError

validateDistPath(path) ==
    The({ IF path = <<>>
          THEN Errorf(<<"dist path cannot be empty">>)
          ELSE IF ByteLen(path) > MaxDistPathLen
          THEN Errorf(<<"dist path too long (max 256 characters)">>)
          ELSE IF ~ distPathPatternMatch(path)
          THEN Errorf(<<"dist path contains invalid characters">>)
          ELSE IF \/ HasPrefix(pathWithoutGlob, DOTDOT)
                  \/ Contains(pathWithoutGlob, <<"/">> \o DOTDOT)
          THEN Errorf(<<"path traversal detected: cannot use '..' to escape working directory">>)
          ELSE IF filepathIsAbs(path)
          THEN Errorf(<<"absolute paths are not allowed">>)
          ELSE NilError
        : pathWithoutGlob \in {RemoveAll(filepathClean(path), "*")} })

\* ------------------------------------------------------------------------
\* Config and parseConfig
\* ------------------------------------------------------------------------

\* a value of the raw map[string]any: absent, a string, a bool, or a value
\* of some other type
NoValue == [t |-> "none", s |-> <<>>, b |-> FALSE]

StrValue(s) == [t |-> "str", s |-> s, b |-> FALSE]

BoolValue(b) == [t |-> "bool", s |-> <<>>, b |-> b]

OtherValue == [t |-> "other", s |-> <<>>, b |-> FALSE]

DefaultRepository == <<"h","t","t","p","s",":","/","/","u","p","l","o","a","d",".","p","y","p","i",".","o","r","g","/","l","e","g","a","c","y","/">>

DefaultDistPath == <<"d","i","s","t","/","*">>

\* a variant in which the environment wins over the explicit credentials
parseConfig_EnvFirst(raw, e) ==
    [Username |->
        IF e.PYPI_USERNAME # <<>> THEN e.PYPI_USERNAME
        ELSE IF raw.username.t = "str" THEN raw.username.s
        ELSE <<>>,
     Password |->
        IF e.PYPI_PASSWORD # <<>> THEN e.PYPI_PASSWORD
        ELSE IF raw.password.t = "str" THEN raw.password.s
        ELSE <<>>,
     Repository |->
        IF raw.repository.t = "str" /\ raw.repository.s # <<>> THEN raw.repository.s
        ELSE DefaultRepository,
     DistPath |->
        IF raw.dist_path.t = "str" /\ raw.dist_path.s # <<>> THEN raw.dist_path.s
        ELSE DefaultDistPath,
     SkipExisting |->
        IF raw.skip_existing.t = "bool" THEN raw.skip_existing.b ELSE FALSE]

\* parseConfig: explicit non-empty strings win, then the environment for the
\* credentials, then the defaults
parseConfig(raw, e) ==
    [Username |->
        IF raw.username.t = "str" /\ raw.username.s # <<>> THEN raw.username.s
        ELSE IF e.PYPI_USERNAME # <<>> THEN e.PYPI_USERNAME
        ELSE <<>>,
     Password |->
        IF raw.password.t = "str" /\ raw.password.s # <<>> THEN raw.password.s
        ELSE IF e.PYPI_PASSWORD # <<>> THEN e.PYPI_PASSWORD
        ELSE <<>>,
     Repository |->
        IF raw.repository.t = "str" /\ raw.repository.s # <<>> THEN raw.repository.s
        ELSE DefaultRepository,
     DistPath |->
        IF raw.dist_path.t = "str" /\ raw.dist_path.s # <<>> THEN raw.dist_path.s
        ELSE DefaultDistPath,
     SkipExisting |->
        IF raw.skip_existing.t = "bool" THEN raw.skip_existing.b ELSE FALSE]

\* ------------------------------------------------------------------------
\* buildTwineArgs
\* ------------------------------------------------------------------------

UPLOAD == <<"u","p","l","o","a","d">>

REPOSITORY_URL_FLAG == <<"-","-","r","e","p","o","s","i","t","o","r","y","-","u","r","l">>

U_FLAG == <<"-","u">>

P_FLAG == <<"-","p">>

SKIP_EXISTING_FLAG == <<"-","-","s","k","i","p","-","e","x","i","s","t","i","n","g">>

TWINE == <<"t","w","i","n","e">>

\* a variant that hands the password to -u and the username to -p
buildTwineArgs_SwappedCredentials(cfg) ==
    <<UPLOAD, REPOSITORY_URL_FLAG, cfg.Repository, U_FLAG, cfg.Password,
      P_FLAG, cfg.Username>>
    \o (IF cfg.SkipExisting THEN <<SKIP_EXISTING_FLAG>> ELSE <<>>)
    \o <<cfg.DistPath>>

\* a variant that appends the skip flag after the path
buildTwineArgs_FlagLast(cfg) ==
    <<UPLOAD, REPOSITORY_URL_FLAG, cfg.Repository, U_FLAG, cfg.Username,
      P_FLAG, cfg.Password, cfg.DistPath>>
    \o (IF cfg.SkipExisting THEN <<SKIP_EXISTING_FLAG>> ELSE <<>>)

buildTwineArgs(cfg) ==
    <<UPLOAD, REPOSITORY_URL_FLAG, cfg.Repository, U_FLAG, cfg.Username,
      P_FLAG, cfg.Password>>
    \o (IF cfg.SkipExisting THEN <<SKIP_EXISTING_FLAG>> ELSE <<>>)
    \o <<cfg.DistPath>>

\* ------------------------------------------------------------------------
\* validateConfig: URL, then dist path, then the credentials; the first
\* failure is returned
\* ------------------------------------------------------------------------

\* a variant that forgets the password check
validateConfig_NoPasswordCheck(cfg, answer) ==
    The({ IF ~ u.err.isNil
          THEN [err |-> Errorf(<<"invalid repository URL: ">> \o u.err.msg),
                lookedUp |-> u.lookedUp]
          ELSE IF ~ d.isNil
          THEN [err |-> Errorf(<<"invalid dist path: ">> \o d.msg),
                lookedUp |-> u.lookedUp]
          ELSE IF cfg.Username = <<>>
          THEN [err |-> Errorf(<<"username is required">>), lookedUp |-> u.lookedUp]
          ELSE [err |-> NilError, lookedUp |-> u.lookedUp]
        : u \in {validateRepositoryURL(cfg.Repository, answer)},
          d \in {validateDistPath(cfg.DistPath)} })

\* a variant that checks the credentials before the URL and the path
validateConfig_CredentialsFirst(cfg, answer) ==
    The({ IF cfg.Username = <<>>
          THEN [err |-> Errorf(<<"username is required">>), lookedUp |-> <<>>]
          ELSE IF cfg.Password = <<>>
          THEN [err |-> Errorf(<<"password is required">>), lookedUp |-> <<>>]
          ELSE IF ~ u.err.isNil
          THEN [err |-> Errorf(<<"invalid repository URL: ">> \o u.err.msg),
                lookedUp |-> u.lookedUp]
          ELSE IF ~ d.isNil
          THEN [err |-> Errorf(<<"invalid dist path: ">> \o d.msg),
                lookedUp |-> u.lookedUp]
          ELSE [err |-> NilError, lookedUp |-> u.lookedUp]
        : u \in {validateRepositoryURL(cfg.Repository, answer)},
          d \in {validateDistPath(cfg.DistPath)} })

validateConfig(cfg, answer) ==
    The({ IF ~ u.err.isNil
          THEN [err |-> Errorf(<<"invalid repository URL: ">> \o u.err.msg),
                lookedUp |-> u.lookedUp]
          ELSE IF ~ d.isNil
          THEN [err |-> Errorf(<<"invalid dist path: ">> \o d.msg),
                lookedUp |-> u.lookedUp]
          ELSE IF cfg.Username = <<>>
          THEN [err |-> Errorf(<<"username is required">>), lookedUp |-> u.lookedUp]
          ELSE IF cfg.Password = <<>>
          THEN [err |-> Errorf(<<"password is required">>), lookedUp |-> u.lookedUp]
          ELSE [err |-> NilError, lookedUp |-> u.lookedUp]
        : u \in {validateRepositoryURL(cfg.Repository, answer)},
          d \in {validateDistPath(cfg.DistPath)} })

\* ------------------------------------------------------------------------
\* the executor: CommandExecutor.Run records the call and returns what the
\* subprocess returns (MockCommandExecutor: ReturnOut, ReturnError)
\* ------------------------------------------------------------------------

MockRunCall(name, args) == [Name |-> name, Args |-> args]

\* ------------------------------------------------------------------------
\* uploadPackage and Execute
\* ------------------------------------------------------------------------

HookPostPublish == "post-publish"

NoOutputs == {}

\* plugin.ExecuteResponse, with the Go error returned beside it
ExecuteResponse(success, message, error, outputs) ==
    [Success |-> success, Message |-> message, Error |-> error,
     Outputs |-> outputs, goErr |-> NilError]

\* the effects of one call: the response, the executor's recorded calls and
\* the hosts handed to net.LookupIP
Outcome(response, calls, looked) ==
    [resp |-> response, runCalls |-> calls, lookups |-> looked]

\* a variant that hands the violation back as the Go error
validationFailedResponse_ReturnsError(err) ==
    [Success |-> FALSE, Message |-> <<>>, Error |-> <<>>, Outputs |-> NoOutputs,
     goErr |-> Errorf(<<"configuration validation failed", ": ">> \o err.msg)]

\* lines 110-113: the response to a configuration that fails validation
validationFailedResponse(err) ==
    ExecuteResponse(FALSE, <<>>,
                    <<"configuration validation failed", ": ">> \o err.msg,
                    NoOutputs)

\* a variant of the dry-run response that leaves the skip flag out
dryRunResponse_NoSkip(cfg, ver) ==
    ExecuteResponse(TRUE, <<"Would upload package to ">> \o cfg.Repository, <<>>,
                    {<<"repository", StrValue(cfg.Repository)>>,
                     <<"dist_path", StrValue(cfg.DistPath)>>,
                     <<"version", StrValue(ver)>>})

\* lines 119-128: the response of a dry run
dryRunResponse(cfg, ver) ==
    ExecuteResponse(TRUE, <<"Would upload package to ">> \o cfg.Repository, <<>>,
                    {<<"repository", StrValue(cfg.Repository)>>,
                     <<"dist_path", StrValue(cfg.DistPath)>>,
                     <<"skip_existing", BoolValue(cfg.SkipExisting)>>,
                     <<"version", StrValue(ver)>>})

\* a variant that runs the subprocess a second time when it failed
executorRun_Retry(exec, args) ==
    [calls |-> IF exec.ReturnError.isNil
               THEN <<MockRunCall(TWINE, args)>>
               ELSE <<MockRunCall(TWINE, args), MockRunCall(TWINE, args)>>,
     output |-> exec.ReturnOut,
     err |-> exec.ReturnError]

\* lines 135-136: the executor is run once on "twine" and the arguments; the
\* result carries the calls the executor recorded
executorRun(exec, args) ==
    [calls |-> <<MockRunCall(TWINE, args)>>,
     output |-> exec.ReturnOut,
     err |-> exec.ReturnError]

\* a variant of the failure response that drops the subprocess's output
uploadFailedResponse_NoOutput(err, output) ==
    ExecuteResponse(FALSE, <<>>, <<"twine upload failed", ": ">> \o err.msg,
                    NoOutputs)

\* lines 138-141: the response to a failed subprocess
uploadFailedResponse(err, output) ==
    ExecuteResponse(FALSE, <<>>,
                    <<"twine upload failed", ": ">> \o err.msg
                    \o <<"\nOutput: ">> \o output,
                    NoOutputs)

\* a variant of the success response that drops the subprocess's output
uploadedResponse_NoOutput(cfg, ver, output) ==
    ExecuteResponse(TRUE,
                    <<"Successfully uploaded package to ">> \o cfg.Repository,
                    <<>>,
                    {<<"repository", StrValue(cfg.Repository)>>,
                     <<"dist_path", StrValue(cfg.DistPath)>>,
                     <<"version", StrValue(ver)>>})

\* lines 144-153: the response to a successful subprocess
uploadedResponse(cfg, ver, output) ==
    ExecuteResponse(TRUE,
                    <<"Successfully uploaded package to ">> \o cfg.Repository,
                    <<>>,
                    {<<"repository", StrValue(cfg.Repository)>>,
                     <<"dist_path", StrValue(cfg.DistPath)>>,
                     <<"version", StrValue(ver)>>,
                     <<"output", StrValue(output)>>})

uploadPackage(cfg, version, dryRun, answer, exec) ==
    The({ IF ~ v.err.isNil
          THEN Outcome(validationFailedResponse(v.err), <<>>, v.lookedUp)
          ELSE IF dryRun
          THEN Outcome(dryRunResponse(cfg, ver), <<>>, v.lookedUp)
          ELSE IF ~ run.err.isNil
          THEN Outcome(uploadFailedResponse(run.err, run.output), run.calls,
                       v.lookedUp)
          ELSE Outcome(uploadedResponse(cfg, ver, run.output), run.calls,
                       v.lookedUp)
        : v \in {validateConfig(cfg, answer)},
          ver \in {TrimPrefix(version, <<"v">>)},
          run \in {executorRun(exec, buildTwineArgs(cfg))} })

\* a variant that validates the configuration before it looks at the hook
ExecuteCall_ValidatesFirst(r, e, answer, exec) ==
    The({ IF r.Hook = HookPostPublish \/ ~ validateConfig(cfg, answer).err.isNil
          THEN uploadPackage(cfg, r.Version, r.DryRun, answer, exec)
          ELSE Outcome(ExecuteResponse(TRUE,
                          <<"Hook ">> \o <<r.Hook>> \o <<" not handled">>, <<>>,
                          NoOutputs),
                       <<>>, <<>>)
        : cfg \in {parseConfig(r.Config, e)} })

\* Execute: the configuration is parsed, then the hook decides
ExecuteCall(r, e, answer, exec) ==
    The({ IF r.Hook = HookPostPublish
          THEN uploadPackage(cfg, r.Version, r.DryRun, answer, exec)
          ELSE Outcome(ExecuteResponse(TRUE,
                          <<"Hook ">> \o <<r.Hook>> \o <<" not handled">>, <<>>,
                          NoOutputs),
                       <<>>, <<>>)
        : cfg \in {parseConfig(r.Config, e)} })

\* ------------------------------------------------------------------------
\* Validate: the configuration is parsed and every field is checked; the
\* violations are collected by the validation builder, whose Build reports
\* them with Valid = (there is none)
\* ------------------------------------------------------------------------

ValidationError(field, message) == [Field |-> field, Message |-> message]

\* a variant of the builder that keeps only the first violation
AddError_OnlyFirst(errors, failed, field, message) ==
    IF failed /\ errors = <<>>
    THEN Append(errors, ValidationError(field, message))
    ELSE errors

\* `if failed { vb.AddError(field, message) }`
AddError(errors, failed, field, message) ==
    IF failed THEN Append(errors, ValidationError(field, message)) ELSE errors

\* a variant of the builder that reports every configuration as valid
Build_AlwaysValid(errors) == [Valid |-> TRUE, Errors |-> errors, goErr |-> NilError]

\* vb.Build(), with the Go error returned beside the response
Build(errors) == [Valid |-> errors = <<>>, Errors |-> errors, goErr |-> NilError]

ValidateCall(config, e, answer) ==
    The({ The({ Outcome(
                  Build(
                    AddError(
                      AddError(
                        AddError(
                          AddError(<<>>, cfg.Username = <<>>, "username",
                             <<"username is required (set via config or PYPI_USERNAME env var)">>),
                          cfg.Password = <<>>, "password",
                          <<"password is required (set via config or PYPI_PASSWORD env var)">>),
                        cfg.Repository # <<>> /\ ~ u.err.isNil, "repository",
                        u.err.msg),
                      cfg.DistPath # <<>> /\ ~ d.isNil, "dist_path", d.msg)),
                  <<>>,
                  IF cfg.Repository # <<>> THEN u.lookedUp ELSE <<>>)
              : u \in {validateRepositoryURL(cfg.Repository, answer)},
                d \in {validateDistPath(cfg.DistPath)} })
        : cfg \in {parseConfig(config, e)} })

\* ------------------------------------------------------------------------
\* The inputs the calls are drawn from
\* ------------------------------------------------------------------------

\* every sequence over S of length 1..n
SeqsUpTo(S, n) == UNION {[1..k -> S] : k \in 1..n}

PublicIP == <<8, 8, 8, 8>>

PrivateIP == <<10, 0, 0, 1>>

MetadataIP == <<169, 254, 169, 254>>

PublicIP6 == <<38, 7, 248, 176, 64, 4, 8, 0, 0, 0, 0, 0, 0, 0, 32, 14>>

\* fd00:ec2::254
MetadataIP6 == <<253, 0, 14, 194, 0, 0, 0, 0, 0, 0, 0, 0, 0, 0, 2, 84>>

\* the 16-byte form of an IPv4 address, ::ffff:a.b.c.d
V4In16(ip) == Zeros(10) \o <<255, 255>> \o ip

\* the addresses isPrivateIP is called on directly: IPv4 addresses around
\* the borders of the listed blocks, in both of their forms, and IPv6
\* addresses of every class
IPv4s ==
    { <<a, b, c, d>> : a \in {0, 1, 8, 10, 11, 100, 126, 127, 128, 169, 172, 192, 224},
                       b \in {0, 1, 8, 15, 16, 31, 32, 168, 169, 254, 255},
                       c \in {0, 1, 8, 169},
                       d \in {0, 1, 8, 254} }

IPv6s ==
    { IPv6loopback, MetadataIP6, PublicIP6,
      Zeros(16),
      <<254, 128>> \o Zeros(13) \o <<1>>,
      <<254, 192>> \o Zeros(13) \o <<1>>,
      <<255, 2>> \o Zeros(13) \o <<1>>,
      <<255, 5>> \o Zeros(13) \o <<1>>,
      <<252>> \o Zeros(14) \o <<1>>,
      <<254>> \o Zeros(14) \o <<1>>,
      <<32, 1, 13, 184>> \o Zeros(11) \o <<1>> }

IPs == IPv4s \cup {V4In16(ip) : ip \in IPv4s} \cup IPv6s

LookupFailure == [err |-> Errorf(<<"no such host">>), ips |-> <<>>]

LookupAnswer(ips) == [err |-> NilError, ips |-> ips]

\* the resolver's possible answers over a set of addresses
Answers(ips) == {LookupFailure} \cup {LookupAnswer(a) : a \in SeqsUpTo(ips, MaxIPs)}

NotAsked == [err |-> Errorf(<<"not asked">>), ips |-> <<>>]

\* the resolver's answers to the calls of the two entry points: a failure,
\* a public address, a private one, a public one followed by a private one
EntryAnswers ==
    { LookupFailure, LookupAnswer(<<PublicIP>>), LookupAnswer(<<PrivateIP>>),
      LookupAnswer(<<PublicIP, PrivateIP>>) }

ExecBehaviours ==
    { [ReturnOut |-> <<"Uploading distributions...">>, ReturnError |-> NilError],
      [ReturnOut |-> <<"HTTPError: 400 Bad Request">>,
       ReturnError |-> Errorf(<<"exit status 1">>)] }

NotRun == [ReturnOut |-> <<>>, ReturnError |-> Errorf(<<"not run">>)]

Hooks == {HookPostPublish, "pre-version", "post-notes"}

Versions == { <<"v","1",".","2",".","3">>, <<"4",".","5",".","6">>, <<"v","v","1">> }

Envs ==
    { [PYPI_USERNAME |-> <<>>, PYPI_PASSWORD |-> <<>>],
      [PYPI_USERNAME |-> <<"e","u">>, PYPI_PASSWORD |-> <<"e","p">>] }

RawUsernames == { NoValue, StrValue(<<"u">>), StrValue(SKIP_EXISTING_FLAG) }

RawPasswords == { NoValue, StrValue(<<"p">>) }

RawRepositories ==
    { NoValue,
      StrValue(<<"h","t","t","p","s",":","/","/","t","e","s","t",".","p","y","p","i",".","o","r","g","/","l","e","g","a","c","y","/">>),
      StrValue(<<"h","t","t","p",":","/","/","e","v","i","l",".","c","o","m","/">>),
      StrValue(<<"h","t","t","p",":","/","/","l","o","c","a","l","h","o","s","t",":","9","9","9","9","/">>),
      StrValue(<<"h","t","t","p","s",":","/","/","e"," ","v","/">>) }

RawDistPaths ==
    { NoValue,
      StrValue(<<"b","u","i","l","d","/","d","i","s","t","/","*",".","w","h","l">>),
      StrValue(<<".",".","/",".",".","/","e","t","c","/","p","a","s","s","w","d">>),
      StrValue(<<"/","e","t","c","/","p","a","s","s","w","d">>),
      StrValue(SKIP_EXISTING_FLAG) }

RawSkips == { NoValue, BoolValue(TRUE), BoolValue(FALSE) }

RawConfigs ==
    [username : RawUsernames, password : RawPasswords,
     repository : RawRepositories, dist_path : RawDistPaths,
     skip_existing : RawSkips]

Requests ==
    [Hook : Hooks, Config : RawConfigs, Version : Versions, DryRun : BOOLEAN]

\* the URLs validateRepositoryURL is called on directly: every composition
\* of a scheme part, the authority marker, a host, a port and a path
URLSchemes ==
    { <<>>, <<"h","t","t","p",":">>, <<"h","t","t","p","s",":">>, <<"H","T","T","P",":">>,
      <<"f","t","p",":">>, <<"f","i","l","e",":">> }

URLSlashes == { <<>>, <<"/", "/">> }

URLHosts ==
    { <<>>,
      <<"l","o","c","a","l","h","o","s","t">>,
      <<"1","2","7",".","0",".","0",".","1">>,
      <<"[",":",":","1","]">>,
      <<"L","O","C","A","L","H","O","S","T">>,
      <<"e","v","i","l",".","c","o","m">>,
      <<"l","o","c","a","l","h","o","s","t",".","e","v","i","l",".","c","o","m">>,
      <<"u","@","l","o","c","a","l","h","o","s","t">>,
      <<"l","o","c","a","l","h","o","s","t","@","e","v","i","l",".","c","o","m">>,
      <<"e"," ","v","i","l",".","c","o","m">> }

URLPorts == { <<>>, <<":","8","0","8","0">>, <<":","x">> }

URLPaths == { <<>>, <<"/">>, <<"/","s","i","m","p","l","e","/">> }

URLParts ==
    [scheme : URLSchemes, slashes : URLSlashes, host : URLHosts,
     port : URLPorts, path : URLPaths]

ComposeURL(p) == p.scheme \o p.slashes \o p.host \o p.port \o p.path

\* the paths validateDistPath is called on directly: every composition of a
\* head, a middle and a tail, as it is or filled with letters up to the
\* longest length allowed and up to one more
\* the atom that stands for the backtick character
BACKTICK == "backtick"

PathHeads ==
    { <<>>, <<"/">>, <<".",".","/">>, <<"d","i","s","t","/">>,
      <<"a","/",".",".","/",".",".","/">>, <<"-">> }

PathMids ==
    { <<>>, <<"a">>, <<"*">>, <<".",".">>, <<".","*",".">>, <<"_",".","-">>,
      <<";">>, <<"|">>, <<BACKTICK>>, <<"$">>, <<"(">>, <<")">>, <<" ">> }

PathTails ==
    { <<>>, <<"/","b">>, <<"/",".",".","/","c">>, <<"*",".","w","h","l">> }

PathFills == {0, MaxDistPathLen, MaxDistPathLen + 1}

\* s followed by as many letters as it lacks to the length n
FillTo(s, n) == s \o [i \in 1..(n - Len(s)) |-> "a"]

\* paths of two-byte characters, of as many bytes as are allowed and of
\* two more, alone and followed by a tail
WidePaths ==
    { [i \in 1..n |-> EACUTE] \o t :
        n \in {MaxDistPathLen \div 2, MaxDistPathLen \div 2 + 1},
        t \in {<<>>, <<";">>, <<"/", "b">>} }

Paths ==
    { FillTo(h \o m \o t, n) :
        h \in PathHeads, m \in PathMids, t \in PathTails, n \in PathFills }
    \cup WidePaths

\* the raw configurations and environments parseConfig is called on
\* directly: every key absent, an empty string, a string, or a value of
\* another type
AnyRawStrings(str) == { NoValue, StrValue(<<>>), StrValue(str), OtherValue }

AnyRawConfigs ==
    [username : AnyRawStrings(<<"u">>),
     password : AnyRawStrings(<<"p">>),
     repository : AnyRawStrings(<<"h","t","t","p",":","/","/","e","v","i","l",".","c","o","m","/">>),
     dist_path : AnyRawStrings(<<".",".","/","x">>),
     skip_existing : { NoValue, BoolValue(TRUE), BoolValue(FALSE),
                       StrValue(<<"t","r","u","e">>), OtherValue }]

AnyEnvs ==
    [PYPI_USERNAME : {<<>>, <<"e","u">>}, PYPI_PASSWORD : {<<>>, <<"e","p">>}]

\* the resolved configurations buildTwineArgs is called on directly
Configs ==
    [Username : {<<>>, <<"u">>, SKIP_EXISTING_FLAG},
     Password : {<<>>, <<"p">>, SKIP_EXISTING_FLAG},
     Repository : {DefaultRepository, <<"h","t","t","p",":","/","/","l","o","c","a","l","h","o","s","t",":","9","9","9","9","/">>, SKIP_EXISTING_FLAG},
     DistPath : {DefaultDistPath, <<"b","u","i","l","d","/","d","i","s","t","/","*",".","w","h","l">>, SKIP_EXISTING_FLAG, <<>>},
     SkipExisting : BOOLEAN]

\* ------------------------------------------------------------------------
\* The plugin as a state machine: the host calls an entry point, the call
\* returns, the host takes the response.  Nothing survives a call.
\* ------------------------------------------------------------------------

NoRequest ==
    [Hook |-> "", Config |-> [username |-> NoValue, password |-> NoValue,
                              repository |-> NoValue, dist_path |-> NoValue,
                              skip_existing |-> NoValue],
     Version |-> <<>>, DryRun |-> FALSE]

NoEnv == [PYPI_USERNAME |-> <<>>, PYPI_PASSWORD |-> <<>>]

NoResponse == ExecuteResponse(FALSE, <<>>, <<>>, NoOutputs)

NoArg == <<>>

NoRet == <<>>

Init ==
    /\ pc = "idle"
    /\ op = "none"
    /\ req = NoRequest
    /\ env = NoEnv
    /\ resolver = NotAsked
    /\ executor = NotRun
    /\ resp = NoResponse
    /\ runCalls = <<>>
    /\ lookups = <<>>
    /\ arg = NoArg
    /\ ret = NoRet
    /\ ctx = "active"

\* the host calls Execute; the resolver and the subprocess answer as they
\* will when the call consults them, and what they answered is kept
Execute ==
    /\ pc = "idle"
    /\ \E r \in Requests, e \in Envs, a \in EntryAnswers,
          x \in ExecBehaviours :
          \E out \in {ExecuteCall(r, e, a, x)} :
              /\ req' = r
              /\ env' = e
              /\ resolver' = IF out.lookups # <<>> THEN a ELSE NotAsked
              /\ executor' = IF out.runCalls # <<>> THEN x ELSE NotRun
              /\ resp' = out.resp
              /\ runCalls' = out.runCalls
              /\ lookups' = out.lookups
    /\ pc' = "done"
    /\ UNCHANGED ctx
    /\ op' = "Execute"
    /\ UNCHANGED <<arg, ret>>

\* the host calls Validate on a raw configuration
Validate ==
    /\ pc = "idle"
    /\ \E config \in RawConfigs, e \in Envs, a \in EntryAnswers :
          \E out \in {ValidateCall(config, e, a)} :
              /\ req' = [NoRequest EXCEPT !.Config = config]
              /\ env' = e
              /\ resolver' = IF out.lookups # <<>> THEN a ELSE NotAsked
              /\ resp' = out.resp
              /\ lookups' = out.lookups
    /\ executor' = NotRun
    /\ runCalls' = <<>>
    /\ pc' = "done"
    /\ UNCHANGED ctx
    /\ op' = "Validate"
    /\ UNCHANGED <<arg, ret>>

\* buildTwineArgs called directly on a resolved configuration
CallBuildTwineArgs ==
    /\ pc = "idle"
    /\ \E cfg \in Configs :
          /\ arg' = cfg
          /\ ret' = buildTwineArgs(cfg)
    /\ pc' = "done"
    /\ UNCHANGED ctx
    /\ op' = "buildTwineArgs"
    /\ UNCHANGED <<req, env, resolver, executor, resp, runCalls, lookups>>

\* the host takes the response; the next call starts from scratch
Return ==
    /\ pc = "done"
    /\ pc' = "idle"
    /\ op' = "none"
    /\ req' = NoRequest
    /\ env' = NoEnv
    /\ resolver' = NotAsked
    /\ executor' = NotRun
    /\ resp' = NoResponse
    /\ runCalls' = <<>>
    /\ lookups' = <<>>
    /\ arg' = NoArg
    /\ ret' = NoRet
    /\ ctx' = "active"

\* validateRepositoryURL called directly on a URL, with the resolver's answer
CallValidateRepositoryURL ==
    /\ pc = "idle"
    /\ \E p \in URLParts, a \in Answers({PublicIP, PrivateIP, PublicIP6}) :
          /\ arg' = [url |-> ComposeURL(p), parts |-> p]
          /\ resolver' = a
          /\ ret' = validateRepositoryURL(ComposeURL(p), a)
    /\ pc' = "done"
    /\ UNCHANGED ctx
    /\ op' = "validateRepositoryURL"
    /\ UNCHANGED <<req, env, executor, resp, runCalls, lookups>>

\* validateDistPath called directly on a path
CallValidateDistPath ==
    /\ pc = "idle"
    /\ \E path \in Paths :
          /\ arg' = path
          /\ ret' = validateDistPath(path)
    /\ pc' = "done"
    /\ UNCHANGED ctx
    /\ op' = "validateDistPath"
    /\ UNCHANGED <<req, env, resolver, executor, resp, runCalls, lookups>>

Next ==
    Execute \/ Validate \/ CallBuildTwineArgs \/ CallValidateDistPath \/ Return

Spec == Init /\ [][Next]_vars

NextURL == CallValidateRepositoryURL \/ Return

SpecURL == Init /\ [][NextURL]_vars

\* isPrivateIP called directly on an address
CallIsPrivateIP ==
    /\ pc = "idle"
    /\ \E ip \in IPs :
          /\ arg' = ip
          /\ ret' = isPrivateIP(ip)
    /\ pc' = "done"
    /\ UNCHANGED ctx
    /\ op' = "isPrivateIP"
    /\ UNCHANGED <<req, env, resolver, executor, resp, runCalls, lookups>>

NextIP == CallIsPrivateIP \/ Return

SpecIP == Init /\ [][NextIP]_vars

NextPath == CallValidateDistPath \/ Return

SpecPath == Init /\ [][NextPath]_vars

\* parseConfig called directly on a raw configuration, in an environment
CallParseConfig ==
    /\ pc = "idle"
    /\ \E raw \in AnyRawConfigs, e \in AnyEnvs :
          /\ arg' = raw
          /\ env' = e
          /\ ret' = parseConfig(raw, e)
    /\ pc' = "done"
    /\ UNCHANGED ctx
    /\ op' = "parseConfig"
    /\ UNCHANGED <<req, resolver, executor, resp, runCalls, lookups>>

NextConfig == CallParseConfig \/ Return

SpecConfig == Init /\ [][NextConfig]_vars

\* ------------------------------------------------------------------------
\* The two entry points step by step, with the two calls that block:
\* net.LookupIP inside validateRepositoryURL and the executor's Run with the
\* real executor, exec.CommandContext(ctx, ...).CombinedOutput().  The
\* caller may cancel its context while a call is blocked.
\* ------------------------------------------------------------------------

\* the calls made step by step
BlockingConfigs ==
    [username : {NoValue, StrValue(<<"u">>)}, password : {StrValue(<<"p">>)},
     repository : RawRepositories,
     dist_path : {NoValue, StrValue(<<"/","e","t","c","/","p","a","s","s","w","d">>)},
     skip_existing : {NoValue}]

BlockingRequests ==
    [Hook : Hooks, Config : BlockingConfigs, Version : {<<"v","1">>},
     DryRun : BOOLEAN]

EntryPoints == {"Execute", "Validate"}

\* what the entry point o returns when the resolver answers a and the
\* subprocess behaves as exec
CallOutcome(o, r, e, a, exec) ==
    IF o = "Execute" THEN ExecuteCall(r, e, a, exec)
    ELSE ValidateCall(r.Config, e, a)

\* the call reaches net.LookupIP (line 233); which host it asks for does
\* not depend on the answer
LookupHosts(o, r, e) == CallOutcome(o, r, e, LookupFailure, NotRun).lookups

\* exec.CommandContext on a context that is already done: Start returns the
\* context's error and no process is started
ContextCanceled == Errorf(<<"context canceled">>)

\* the call goes on after validateRepositoryURL has its answer: it returns,
\* or it reaches executor.Run (line 136) and blocks on the subprocess
Proceed(o, r, e, a) ==
    \E out \in {CallOutcome(o, r, e, a, NotRun)} :
        /\ runCalls' = out.runCalls
        /\ IF out.runCalls = <<>>
           THEN pc' = "done" /\ resp' = out.resp
           ELSE IF ctx = "canceled"
           THEN pc' = "done" /\ resp' = uploadFailedResponse(ContextCanceled, <<>>)
           ELSE pc' = "running" /\ resp' = NoResponse

\* the host calls an entry point; the call runs up to its first blocking call
BeginCall ==
    /\ pc = "idle"
    /\ \E o \in EntryPoints, r \in BlockingRequests :
          /\ op' = o
          /\ req' = IF o = "Execute" THEN r ELSE [NoRequest EXCEPT !.Config = r.Config]
          /\ env' = NoEnv
          /\ lookups' = LookupHosts(o, r, NoEnv)
          /\ IF LookupHosts(o, r, NoEnv) # <<>>
             THEN pc' = "resolving" /\ resp' = NoResponse /\ runCalls' = <<>>
             ELSE Proceed(o, r, NoEnv, NotAsked)
    /\ UNCHANGED <<resolver, executor, arg, ret, ctx>>

\* the caller cancels its context while the call is blocked
Cancel ==
    /\ pc \in {"resolving", "running"}
    /\ ctx = "active"
    /\ ctx' = "canceled"
    /\ UNCHANGED <<pc, op, req, env, resolver, executor, resp, runCalls, lookups,
                   arg, ret>>

\* net.LookupIP(host) returns: it takes no context, so it returns when the
\* resolver answers, whatever the state of the caller's context is
LookupReturns ==
    /\ pc = "resolving"
    /\ \E a \in EntryAnswers :
          /\ resolver' = a
          /\ Proceed(op, req, env, a)
    /\ UNCHANGED <<op, req, env, executor, lookups, arg, ret, ctx>>

\* the subprocess ends by itself and Run returns its output and error
RunReturns ==
    /\ pc = "running"
    /\ \E x \in ExecBehaviours :
          /\ executor' = x
          /\ resp' = CallOutcome(op, req, env, resolver, x).resp
    /\ pc' = "done"
    /\ UNCHANGED <<op, req, env, resolver, runCalls, lookups, arg, ret, ctx>>

\* exec.CommandContext kills the subprocess once the context is done, and Run
\* returns the error of the killed process or of the context
RunAborted ==
    /\ pc = "running"
    /\ ctx = "canceled"
    /\ \E err \in {Errorf(<<"signal: killed">>), ContextCanceled} :
          resp' = uploadFailedResponse(err, <<>>)
    /\ pc' = "done"
    /\ UNCHANGED <<op, req, env, resolver, executor, runCalls, lookups, arg, ret,
                   ctx>>

NextBlocking ==
    BeginCall \/ Cancel \/ LookupReturns \/ RunReturns \/ RunAborted \/ Return

SpecBlocking == Init /\ [][NextBlocking]_vars

\* ------------------------------------------------------------------------
\* A validator called twice on the same input.  Neither validator writes a
\* package variable, so the second call computes what the first computed;
\* net.LookupIP is asked anew in each call of validateRepositoryURL.
\* ------------------------------------------------------------------------

Validators == {"validateRepositoryURL", "validateDistPath"}

TwiceInputs(v) ==
    IF v = "validateDistPath" THEN Paths ELSE {ComposeURL(p) : p \in URLParts}

\* the error one call of the validator v returns on the input, the resolver
\* answering a
ValidatorCall(v, input, a) ==
    IF v = "validateDistPath" THEN validateDistPath(input)
    ELSE validateRepositoryURL(input, a).err

FirstCall ==
    /\ pc = "idle"
    /\ \E v \in Validators :
          \E input \in TwiceInputs(v), a \in EntryAnswers :
              /\ op' = v
              /\ arg' = [input |-> input, answers |-> <<a>>]
              /\ ret' = <<ValidatorCall(v, input, a)>>
    /\ pc' = "once"
    /\ UNCHANGED <<req, env, resolver, executor, resp, runCalls, lookups, ctx>>

\* a variant in which the first call leaves a mark that makes the second
\* accept without looking
SecondCall_SkipsValidated ==
    /\ pc = "once"
    /\ \E a \in EntryAnswers :
          /\ arg' = [arg EXCEPT !.answers = Append(@, a)]
          /\ ret' = Append(ret, NilError)
    /\ pc' = "done"
    /\ UNCHANGED <<op, req, env, resolver, executor, resp, runCalls, lookups, ctx>>

SecondCall ==
    /\ pc = "once"
    /\ \E a \in EntryAnswers :
          /\ arg' = [arg EXCEPT !.answers = Append(@, a)]
          /\ ret' = Append(ret, ValidatorCall(op, arg.input, a))
    /\ pc' = "done"
    /\ UNCHANGED <<op, req, env, resolver, executor, resp, runCalls, lookups, ctx>>

NextTwice == FirstCall \/ SecondCall \/ Return

SpecTwice == Init /\ [][NextTwice]_vars

\* ------------------------------------------------------------------------
\* What the claims speak of
\* ------------------------------------------------------------------------

\* the configuration the returned call resolved
Cfg == parseConfig(req.Config, env)

ExecuteReturned == pc = "done" /\ op = "Execute"

PostPublishReturned == ExecuteReturned /\ req.Hook = HookPostPublish

\* the resolved configuration has a violation: a missing credential, a URL
\* the URL validator rejects (given what the resolver answered), or a path
\* the path validator rejects
HasViolation ==
    \/ Cfg.Username = <<>>
    \/ Cfg.Password = <<>>
    \/ ~ validateRepositoryURL(Cfg.Repository, resolver).err.isNil
    \/ ~ validateDistPath(Cfg.DistPath).isNil

DryRunReturned == PostPublishReturned /\ req.DryRun /\ ~ HasViolation

RealRunReturned == PostPublishReturned /\ ~ req.DryRun /\ ~ HasViolation

\* the release version without one leading "v"
NormalizedVersion(v) == IF v # <<>> /\ v[1] = "v" THEN Tail(v) ELSE v

\* the argument list the builder is specified to produce
ExpectedArgs(cfg) ==
    IF cfg.SkipExisting
    THEN <<UPLOAD, REPOSITORY_URL_FLAG, cfg.Repository, U_FLAG, cfg.Username,
           P_FLAG, cfg.Password, SKIP_EXISTING_FLAG, cfg.DistPath>>
    ELSE <<UPLOAD, REPOSITORY_URL_FLAG, cfg.Repository, U_FLAG, cfg.Username,
           P_FLAG, cfg.Password, cfg.DistPath>>

BuildReturned == pc = "done" /\ op = "buildTwineArgs"

\* the positions of an argument list that hold the skip flag's text
FlagPositions(args) == {i \in DOMAIN args : args[i] = SKIP_EXISTING_FLAG}

\* the positions the builder fills with values copied from the configuration
ValueSlots(args) == {3, 5, 7, Len(args)}

URLReturned == pc = "done" /\ op = "validateRepositoryURL"

ArgScheme == urlParse(arg.url).Scheme

ArgHostname == Hostname(urlParse(arg.url).Host)

ArgParses == urlParse(arg.url).ok

ExactlyLocal(h) == h \in {LOCALHOST, LOOPBACK4, LOOPBACK6}

\* ------------------------------------------------------------------------
\* C1: a post-publish Execute whose resolved configuration has a violation
\* returns Success=false with an Error that starts with "configuration
\* validation failed", and the executor is not invoked in that call.
\* ------------------------------------------------------------------------
C1_InvalidConfigNeverRuns ==
    (PostPublishReturned /\ HasViolation) =>
        /\ resp.Success = FALSE
        /\ HasPrefix(resp.Error, <<"configuration validation failed">>)
        /\ runCalls = <<>>

\* a real run with both credentials and a traversing dist path was refused
C1_Witness ==
    /\ PostPublishReturned
    /\ ~ req.DryRun
    /\ Cfg.Username # <<>>
    /\ Cfg.Password # <<>>
    /\ Cfg.DistPath = <<".",".","/",".",".","/","e","t","c","/","p","a","s","s","w","d">>
    /\ resp.Success = FALSE
    /\ Contains(resp.Error,
                <<"path traversal detected: cannot use '..' to escape working directory">>)
    /\ runCalls = <<>>

C3_ExactlyOneRun ==
    RealRunReturned =>
        /\ Len(runCalls) = 1
        /\ runCalls[1].Name = TWINE

\* a real run whose subprocess failed, with its one recorded call
C3_Witness ==
    /\ RealRunReturned
    /\ ~ executor.ReturnError.isNil
    /\ Len(runCalls) = 1

\* ------------------------------------------------------------------------
\* C4: when the executor returns an error in a real run, the response has
\* Success=false, an Error that contains "twine upload failed", the error's
\* text and the raw output, and no outputs.
\* ------------------------------------------------------------------------
C4_FailureReported ==
    (RealRunReturned /\ ~ executor.ReturnError.isNil) =>
        /\ resp.Success = FALSE
        /\ Contains(resp.Error, <<"twine upload failed">>)
        /\ Contains(resp.Error, executor.ReturnError.msg)
        /\ Contains(resp.Error, executor.ReturnOut)
        /\ resp.Outputs = NoOutputs
        /\ resp.Message = <<>>

\* the scenario: the subprocess failed with output "HTTPError: 400 ..."
C4_Witness ==
    /\ RealRunReturned
    /\ executor.ReturnError = Errorf(<<"exit status 1">>)
    /\ executor.ReturnOut = <<"HTTPError: 400 Bad Request">>
    /\ resp.Success = FALSE
    /\ Contains(resp.Error, <<"HTTPError: 400 Bad Request">>)

C6_ArgsExact ==
    /\ BuildReturned => ret = ExpectedArgs(arg)
    /\ RealRunReturned =>
          /\ runCalls # <<>>
          /\ runCalls[1].Args = ExpectedArgs(Cfg)

\* the scenario: a real run with the skip flag set and credentials u/p
C6_Witness ==
    /\ RealRunReturned
    /\ Cfg.SkipExisting
    /\ executor.ReturnError.isNil
    /\ runCalls[1].Args =
          <<UPLOAD, REPOSITORY_URL_FLAG, Cfg.Repository, U_FLAG, <<"u">>,
            P_FLAG, <<"p">>, SKIP_EXISTING_FLAG, Cfg.DistPath>>

C8_HttpNonLocalRejected ==
    (URLReturned /\ ArgParses /\ ArgScheme = HTTP /\ ~ ExactlyLocal(ArgHostname)) =>
        /\ ~ ret.err.isNil
        /\ HasPrefix(ret.err.msg, <<"only HTTPS URLs are allowed">>)
        /\ ret.lookedUp = <<>>

\* http://localhost.evil.com/ was rejected although it would resolve to a
\* public address
C8_Witness ==
    /\ URLReturned
    /\ arg.url = <<"h","t","t","p",":","/","/","l","o","c","a","l","h","o","s","t",".","e","v","i","l",".","c","o","m","/">>
    /\ resolver = LookupAnswer(<<PublicIP>>)
    /\ HasPrefix(ret.err.msg, <<"only HTTPS URLs are allowed">>)
    /\ ret.lookedUp = <<>>

\* ------------------------------------------------------------------------
\* C9: a URL with scheme http or https whose hostname is exactly localhost,
\* 127.0.0.1 or ::1, with any port and path, is accepted without hostname
\* resolution, whatever the resolver would answer.
\* ------------------------------------------------------------------------
C9_LocalhostAccepted ==
    (URLReturned /\ ArgParses /\ ArgScheme \in {HTTP, HTTPS}
        /\ ExactlyLocal(ArgHostname)) =>
        /\ ret.err.isNil
        /\ ret.lookedUp = <<>>

\* http://[::1]:8080/simple/ was accepted while the resolver would fail
C9_Witness ==
    /\ URLReturned
    /\ arg.url = <<"h","t","t","p",":","/","/","[",":",":","1","]",":","8","0","8","0","/","s","i","m","p","l","e","/">>
    /\ resolver = LookupFailure
    /\ ret.err.isNil
    /\ ret.lookedUp = <<>>

\* ------------------------------------------------------------------------
\* C10: a URL whose scheme is neither http nor https is rejected, for every
\* host, the local ones included; every accepted URL has scheme https, or
\* scheme http with a local host.
\* ------------------------------------------------------------------------
C10_OnlyHttpSchemes ==
    URLReturned =>
        /\ (~ ArgParses \/ ArgScheme \notin {HTTP, HTTPS}) => ~ ret.err.isNil
        /\ ret.err.isNil =>
              /\ ArgParses
              /\ \/ ArgScheme = HTTPS
                 \/ ArgScheme = HTTP /\ ExactlyLocal(ArgHostname)

\* ftp://localhost/ was rejected
C10_Witness ==
    /\ URLReturned
    /\ arg.url = <<"f","t","p",":","/","/","l","o","c","a","l","h","o","s","t","/">>
    /\ ArgParses
    /\ ExactlyLocal(ArgHostname)
    /\ ~ ret.err.isNil
    /\ HasPrefix(ret.err.msg, <<"only HTTP(S) URLs are allowed">>)

\* ------------------------------------------------------------------------
\* C11: an https URL whose host is not one of the three local texts is
\* accepted only if the resolver answered without error and none of the
\* addresses it returned is classified as private; a failed resolution is
\* rejected with "failed to resolve hostname", and an answer with at least
\* one private address is rejected even when its other addresses are public.
\* ------------------------------------------------------------------------
HttpsNonLocal ==
    URLReturned /\ ArgParses /\ ArgScheme = HTTPS /\ ~ ExactlyLocal(ArgHostname)

C11_ResolvedAddressesAllAllowed ==
    HttpsNonLocal =>
        /\ ret.lookedUp = <<ArgHostname>>
        /\ ret.err.isNil <=>
              /\ resolver.err.isNil
              /\ \A i \in DOMAIN resolver.ips : ~ isPrivateIP(resolver.ips[i])
        /\ ~ resolver.err.isNil =>
              HasPrefix(ret.err.msg, <<"failed to resolve hostname">>)
        /\ (resolver.err.isNil /\ PrivateIP \in Range(resolver.ips)) =>
              ret.err.msg = <<"URLs pointing to private networks are not allowed">>

\* a public address first and a private one second: rejected
C11_Witness ==
    /\ HttpsNonLocal
    /\ resolver = LookupAnswer(<<PublicIP, PrivateIP>>)
    /\ ~ ret.err.isNil

\* ------------------------------------------------------------------------
\* C12: isPrivateIP answers true for every address of 10.0.0.0/8,
\* 172.16.0.0/12, 192.168.0.0/16, 127.0.0.0/8, 169.254.0.0/16 (169.254.169.254
\* among them) and 0.0.0.0/8, for ::1 and fd00:ec2::254, and for every address
\* that is loopback, link-local unicast, link-local multicast or private by
\* the address-family predicates; it answers false for 8.8.8.8, 1.1.1.1 and
\* 2607:f8b0:4004:800::200e.
\* ------------------------------------------------------------------------
IPReturned == pc = "done" /\ op = "isPrivateIP"

\* the four bytes of an IPv4 address in either of its forms, <<>> otherwise
ArgV4 ==
    IF Len(arg) = 4 THEN arg
    ELSE IF Len(arg) = 16 /\ SubSeq(arg, 1, 12) = Zeros(10) \o <<255, 255>>
    THEN SubSeq(arg, 13, 16)
    ELSE <<>>

\* the address lies in one of the six IPv4 blocks, by its decimal bytes
InListedV4Block ==
    /\ ArgV4 # <<>>
    /\ \/ ArgV4[1] = 10
       \/ ArgV4[1] = 172 /\ ArgV4[2] >= 16 /\ ArgV4[2] <= 31
       \/ ArgV4[1] = 192 /\ ArgV4[2] = 168
       \/ ArgV4[1] = 127
       \/ ArgV4[1] = 169 /\ ArgV4[2] = 254
       \/ ArgV4[1] = 0

C12_ClassifierRanges ==
    IPReturned =>
        /\ InListedV4Block => ret = TRUE
        /\ arg \in {IPv6loopback, MetadataIP6, MetadataIP, V4In16(MetadataIP)}
              => ret = TRUE
        /\ (IsLoopback(arg) \/ IsLinkLocalUnicast(arg)
              \/ IsLinkLocalMulticast(arg) \/ IsPrivate(arg)) => ret = TRUE
        /\ arg \in {<<8, 8, 8, 8>>, <<1, 1, 1, 1>>, PublicIP6} => ret = FALSE

\* an address of 0.0.0.0/8, which no address-family predicate covers
C12_Witness ==
    /\ IPReturned
    /\ arg = <<0, 1, 8, 254>>
    /\ ret = TRUE
    /\ ~ (IsLoopback(arg) \/ IsLinkLocalUnicast(arg)
            \/ IsLinkLocalMulticast(arg) \/ IsPrivate(arg))

\* ------------------------------------------------------------------------
\* What the claims about validateDistPath speak of
\* ------------------------------------------------------------------------
PathReturned == pc = "done" /\ op = "validateDistPath"

\* the length of the path in bytes: every character is one byte but the
\* two-byte one
ArgBytes == Len(arg) + Cardinality({i \in DOMAIN arg : arg[i] = "e-acute"})

TooLong == <<"dist path too long (max 256 characters)">>

InvalidCharacters == <<"dist path contains invalid characters">>

PathTraversal ==
    <<"path traversal detected: cannot use '..' to escape working directory">>

AbsolutePath == <<"absolute paths are not allowed">>

ShellChars == {";", "|", BACKTICK, "$", "(", ")", " "}

HasShellChar == \E i \in DOMAIN arg : arg[i] \in ShellChars

\* ------------------------------------------------------------------------
\* C13 as stated: every path that contains one of ; | ` $ ( ) or the space,
\* at any position, is rejected with the "invalid characters" violation.
\* ------------------------------------------------------------------------
C13_AsStated ==
    (PathReturned /\ HasShellChar) => ret.msg = InvalidCharacters

\* ------------------------------------------------------------------------
\* C13 as amended: every path that contains one of ; | ` $ ( ) or the space
\* is rejected; the violation is "invalid characters" when the path has at
\* most 256 bytes and "too long" when it has more.
\* ------------------------------------------------------------------------
C13_ShellCharsRejected ==
    (PathReturned /\ HasShellChar) =>
        /\ ~ ret.isNil
        /\ ArgBytes <= 256 => ret.msg = InvalidCharacters
        /\ ArgBytes > 256 => ret.msg = TooLong

\* a space in the middle of a path of allowed characters
C13_Witness ==
    /\ PathReturned
    /\ arg = <<"d","i","s","t","/"," ","*",".","w","h","l">>
    /\ ret.msg = InvalidCharacters

\* ------------------------------------------------------------------------
\* C14 as stated: every path whose cleaned form, with every '*' removed,
\* starts with ".." or contains "/../" is rejected with the "path
\* traversal" violation.
\* ------------------------------------------------------------------------
CleanedWithoutGlob == SelectSeq(filepathClean(arg), LAMBDA c : c # "*")

Escapes ==
    \/ HasPrefix(CleanedWithoutGlob, <<".", ".">>)
    \/ Contains(CleanedWithoutGlob, <<"/", ".", ".", "/">>)

C14_AsStated ==
    (PathReturned /\ Escapes) => ret.msg = PathTraversal

\* ------------------------------------------------------------------------
\* C14 as amended: every path whose cleaned form, with every '*' removed,
\* starts with ".." or contains "/../" is rejected; the violation is "path
\* traversal" when the path has at most 256 bytes, all of them in the
\* allowed set, also when the raw path contains '*'; a longer path is "too
\* long" and a path with another character has "invalid characters".
\* ------------------------------------------------------------------------
OnlyAllowedChars ==
    \A i \in DOMAIN arg :
        \/ IsLetter(arg[i])
        \/ arg[i] \in Digits
        \/ arg[i] \in {".", "_", "-", "/", "*"}

C14_TraversalRejected ==
    (PathReturned /\ Escapes) =>
        /\ ~ ret.isNil
        /\ (ArgBytes <= 256 /\ OnlyAllowedChars) => ret.msg = PathTraversal
        /\ ArgBytes > 256 => ret.msg = TooLong
        /\ (ArgBytes <= 256 /\ ~ OnlyAllowedChars) => ret.msg = InvalidCharacters

\* ".*./b": no ".." in the raw path, "../b" once the '*' is removed
C14_Witness ==
    /\ PathReturned
    /\ arg = <<".", "*", ".", "/", "b">>
    /\ Escapes
    /\ ret.msg = PathTraversal

\* ------------------------------------------------------------------------
\* C15 as stated: every path that begins with '/' is rejected with the
\* "absolute paths are not allowed" violation, whatever the character-set
\* and traversal checks say about it.
\* ------------------------------------------------------------------------
Absolute == arg # <<>> /\ arg[1] = "/"

C15_AsStated ==
    (PathReturned /\ Absolute) => ret.msg = AbsolutePath

\* ------------------------------------------------------------------------
\* C15 as amended: every path that begins with '/' is rejected; the
\* violation is "absolute paths are not allowed" when the path passes the
\* length, character-set and traversal checks, and the violation of the
\* first of those checks it fails otherwise.
\* ------------------------------------------------------------------------
C15_AbsoluteRejected ==
    (PathReturned /\ Absolute) =>
        /\ ~ ret.isNil
        /\ ArgBytes > 256 => ret.msg = TooLong
        /\ (ArgBytes <= 256 /\ ~ OnlyAllowedChars) => ret.msg = InvalidCharacters
        /\ (ArgBytes <= 256 /\ OnlyAllowedChars /\ Escapes) => ret.msg = PathTraversal
        /\ (ArgBytes <= 256 /\ OnlyAllowedChars /\ ~ Escapes
              /\ ~ Contains(CleanedWithoutGlob, <<"/", ".", ".">>))
              => ret.msg = AbsolutePath

\* "/a/b": absolute, and nothing else is wrong with it
C15_Witness ==
    /\ PathReturned
    /\ arg = <<"/", "a", "/", "b">>
    /\ ret.msg = AbsolutePath

\* ------------------------------------------------------------------------
\* C16: the result of parseConfig is the reference merge: a credential is
\* the explicit string when that is non-empty, else the environment's value
\* when that is non-empty, else empty; the repository is the explicit
\* non-empty string, else "https://upload.pypi.org/legacy/"; the dist path is
\* the explicit non-empty string, else "dist/*"; the skip flag is the
\* explicit boolean, else false.  No value is rejected: an invalid URL or
\* path is merged like any other string.
\* ------------------------------------------------------------------------
ConfigReturned == pc = "done" /\ op = "parseConfig"

\* the explicit string under a key of the raw configuration, "" when the
\* key is absent or holds a value that is not a string
Explicit(v) == IF v.t = "str" THEN v.s ELSE <<>>

FirstNonEmpty(a, b) == IF a # <<>> THEN a ELSE b

C16_ReferenceMerge ==
    ConfigReturned =>
        /\ ret.Username = FirstNonEmpty(Explicit(arg.username), env.PYPI_USERNAME)
        /\ ret.Password = FirstNonEmpty(Explicit(arg.password), env.PYPI_PASSWORD)
        /\ ret.Repository =
              FirstNonEmpty(Explicit(arg.repository),
                  <<"h","t","t","p","s",":","/","/","u","p","l","o","a","d",".",
                    "p","y","p","i",".","o","r","g","/","l","e","g","a","c","y","/">>)
        /\ ret.DistPath =
              FirstNonEmpty(Explicit(arg.dist_path), <<"d","i","s","t","/","*">>)
        /\ ret.SkipExisting =
              (arg.skip_existing.t = "bool" /\ arg.skip_existing.b)

\* the explicit username wins over the environment's, the environment's
\* password fills the empty explicit one, and the plain-http URL and the
\* traversing path are merged as they are
C16_Witness ==
    /\ ConfigReturned
    /\ arg.username = StrValue(<<"u">>)
    /\ arg.password = StrValue(<<>>)
    /\ env = [PYPI_USERNAME |-> <<"e","u">>, PYPI_PASSWORD |-> <<"e","p">>]
    /\ ret.Username = <<"u">>
    /\ ret.Password = <<"e","p">>
    /\ ret.Repository = <<"h","t","t","p",":","/","/","e","v","i","l",".","c","o","m","/">>
    /\ ret.DistPath = <<".",".","/","x">>

\* ------------------------------------------------------------------------
\* C17: Validate collects instead of stopping at the first violation: its
\* report holds exactly one violation under each of the field names
\* username, password, repository and dist_path whose check fails, none
\* under a field whose check passes, and Valid is true exactly when no
\* check fails.
\* ------------------------------------------------------------------------
ValidateReturned == pc = "done" /\ op = "Validate"

\* the fields of the resolved configuration whose check fails
FailingFields ==
    {f \in {"username"} : Cfg.Username = <<>>}
    \cup {f \in {"password"} : Cfg.Password = <<>>}
    \cup {f \in {"repository"} :
            ~ validateRepositoryURL(Cfg.Repository, resolver).err.isNil}
    \cup {f \in {"dist_path"} : ~ validateDistPath(Cfg.DistPath).isNil}

ErrorsUnder(f) == {i \in DOMAIN resp.Errors : resp.Errors[i].Field = f}

C17_ValidateAggregates ==
    ValidateReturned =>
        /\ \A f \in {"username", "password", "repository", "dist_path"} :
              Cardinality(ErrorsUnder(f)) = IF f \in FailingFields THEN 1 ELSE 0
        /\ Len(resp.Errors) = Cardinality(FailingFields)
        /\ resp.Valid <=> FailingFields = {}

\* all four fields fail at once and all four are reported
C17_Witness ==
    /\ ValidateReturned
    /\ FailingFields = {"username", "password", "repository", "dist_path"}
    /\ Len(resp.Errors) = 4
    /\ resp.Valid = FALSE

\* ------------------------------------------------------------------------
\* C18: for a hook other than post-publish Execute returns Success=true
\* with the message "Hook <name> not handled", no Error and no Outputs; the
\* configuration is not validated (the resolver is not consulted and no
\* violation is reported, whatever is wrong with the configuration) and the
\* executor is not invoked, with or without the dry-run flag.
\* ------------------------------------------------------------------------
OtherHookReturned == ExecuteReturned /\ req.Hook # "post-publish"

C18_OtherHooksNotHandled ==
    OtherHookReturned =>
        /\ resp.Success = TRUE
        /\ resp.Message = <<"Hook ", req.Hook, " not handled">>
        /\ resp.Error = <<>>
        /\ resp.Outputs = {}
        /\ lookups = <<>>
        /\ runCalls = <<>>

\* a real run on another hook with a configuration that has violations
C18_Witness ==
    /\ OtherHookReturned
    /\ ~ req.DryRun
    /\ Cfg.Username = <<>>
    /\ ~ validateDistPath(Cfg.DistPath).isNil
    /\ resp.Success = TRUE
    /\ runCalls = <<>>

\* ------------------------------------------------------------------------
\* C19: the outputs of a dry run and of a successful real run hold exactly
\* one version, the release version without its first character when that
\* is "v" and the release version itself otherwise: "v1.2.3" gives "1.2.3",
\* "4.5.6" gives "4.5.6", and of "vv1" only the first "v" is removed.
\* ------------------------------------------------------------------------
VersionsReported == {o[2].s : o \in {x \in resp.Outputs : x[1] = "version"}}

ReportsVersion ==
    \/ DryRunReturned
    \/ RealRunReturned /\ executor.ReturnError.isNil

C19_VersionNormalized ==
    ReportsVersion =>
        /\ VersionsReported =
              {IF req.Version[1] = "v"
               THEN SubSeq(req.Version, 2, Len(req.Version))
               ELSE req.Version}
        /\ req.Version = <<"v","1",".","2",".","3">>
              => VersionsReported = {<<"1",".","2",".","3">>}
        /\ req.Version = <<"4",".","5",".","6">>
              => VersionsReported = {<<"4",".","5",".","6">>}
        /\ req.Version = <<"v","v","1">> => VersionsReported = {<<"v","1">>}

\* a successful real run of a release "vv1"
C19_Witness ==
    /\ RealRunReturned
    /\ executor.ReturnError.isNil
    /\ req.Version = <<"v","v","1">>
    /\ <<"version", StrValue(<<"v","1">>)>> \in resp.Outputs

\* ------------------------------------------------------------------------
\* C20: no call ends in a Go error: Execute returns a response with a nil
\* error for every hook, configuration, dry-run flag and executor
\* behaviour, and so does Validate; a configuration violation, a URL that
\* does not parse, a failed resolution and a failed subprocess are all
\* reported in the response, as Success=false with an Error, or as
\* Valid=false with a violation.
\* ------------------------------------------------------------------------
Unparseable == ~ urlParse(Cfg.Repository).ok

ResolutionFailed == lookups # <<>> /\ resolver = LookupFailure

C20_FailuresAreResponses ==
    /\ ExecuteReturned =>
          /\ resp.goErr.isNil
          /\ DOMAIN resp = {"Success", "Message", "Error", "Outputs", "goErr"}
    /\ ValidateReturned =>
          /\ resp.goErr.isNil
          /\ DOMAIN resp = {"Valid", "Errors", "goErr"}
    /\ (PostPublishReturned /\ (HasViolation \/ Unparseable \/ ResolutionFailed)) =>
          resp.Success = FALSE /\ resp.Error # <<>>
    /\ (RealRunReturned /\ ~ executor.ReturnError.isNil) =>
          resp.Success = FALSE /\ resp.Error # <<>>
    /\ (ValidateReturned /\ (FailingFields # {} \/ Unparseable \/ ResolutionFailed)) =>
          resp.Valid = FALSE /\ resp.Errors # <<>>

\* a post-publish call whose repository URL does not parse
C20_Witness ==
    /\ PostPublishReturned
    /\ Unparseable
    /\ resp.goErr.isNil
    /\ resp.Success = FALSE
    /\ resp.Error = <<"configuration validation failed", ": ",
                      "invalid repository URL: ", "invalid URL: ", "parse error">>

\* ------------------------------------------------------------------------
\* C21 as stated: both blocking calls respect the caller's context: once
\* the context is canceled while the call is blocked on the resolver or on
\* the subprocess, the blocked call can abort by itself, without waiting for
\* the resolver's answer or the subprocess's end, and a call that returns
\* after the cancellation reports a cancellation.
\* ------------------------------------------------------------------------
Blocked == pc \in {"resolving", "running"}

CancellationReported ==
    /\ op = "Execute"
    /\ resp.Success = FALSE
    /\ \/ resp.Error = uploadFailedResponse(ContextCanceled, <<>>).Error
       \/ resp.Error = uploadFailedResponse(Errorf(<<"signal: killed">>), <<>>).Error

C21_AsStated ==
    /\ (Blocked /\ ctx = "canceled") => ENABLED RunAborted
    /\ (pc = "done" /\ ctx = "canceled") => CancellationReported

\* ------------------------------------------------------------------------
\* C22 as stated: a validator called twice on the same input string gives
\* the same outcome both times, the same accept or reject and the same
\* violation.
\* ------------------------------------------------------------------------
CalledTwice == pc = "done" /\ op \in Validators

DecidedBeforeLookup ==
    validateRepositoryURL(arg.input, LookupFailure).lookedUp = <<>>

FailsEmpty == arg = <<>>

\* the length check by characters
FailsLength == Len(arg) > 256

FailsChars == ~ OnlyAllowedChars

\* the traversal check as the code makes it: ".." in front of the cleaned
\* path without its '*', or "/.." anywhere in it
FailsTraversal ==
    \/ HasPrefix(CleanedWithoutGlob, <<".", ".">>)
    \/ Contains(CleanedWithoutGlob, <<"/", ".", ".">>)

FailsAbsolute == Absolute

NoDotDotElement(c) ==
    /\ c # <<".", ".">>
    /\ ~ HasPrefix(c, <<".", ".", "/">>)
    /\ ~ HasSuffix(c, <<"/", ".", ".">>)
    /\ ~ Contains(c, <<"/", ".", ".", "/">>)

StaysInside(path) ==
    /\ path # <<>>
    /\ Len(path) <= 256
    /\ \A i \in DOMAIN path :
          \/ IsLetter(path[i])
          \/ path[i] \in Digits
          \/ path[i] \in {".", "_", "-", "/", "*"}
    /\ path[1] # "/"
    /\ NoDotDotElement(filepathClean(path))

C24_AcceptedPathsStayInside ==
    /\ (PathReturned /\ ret.isNil) => StaysInside(arg)
    /\ ExecuteReturned =>
          \A i \in DOMAIN runCalls :
              StaysInside(runCalls[i].Args[Len(runCalls[i].Args)])

\* "dist/../b" is accepted: its ".." is gone from the cleaned form, "b"
C24_Witness ==
    /\ PathReturned
    /\ arg = <<"d","i","s","t","/",".",".","/","b">>
    /\ ret.isNil
    /\ filepathClean(arg) = <<"b">>

\* ------------------------------------------------------------------------
\* C25 as stated: no path validateDistPath accepts begins with '-', so the
\* last argument of a subprocess call never begins with '-' and cannot be
\* read as an option by the upload tool.
\* ------------------------------------------------------------------------
LooksLikeOption(path) == path # <<>> /\ path[1] = "-"

C25_AsStated ==
    /\ (PathReturned /\ ret.isNil) => ~ LooksLikeOption(arg)
    /\ ExecuteReturned =>
          \A i \in DOMAIN runCalls :
              ~ LooksLikeOption(runCalls[i].Args[Len(runCalls[i].Args)])

\* ------------------------------------------------------------------------
\* C26: the two entry points agree on validity: on the same raw
\* configuration, in the same environment and with the same answer of the
\* resolver, Validate reports Valid=true exactly when a post-publish Execute
\* does not return "configuration validation failed".
\* ------------------------------------------------------------------------
PassesGate(r) == ~ HasPrefix(r.Error, <<"configuration validation failed">>)

\* what the other entry point returns on the inputs of the returned call
ExecuteOnSame ==
    ExecuteCall([Hook |-> "post-publish", Config |-> req.Config,
                 Version |-> <<"v", "1">>, DryRun |-> TRUE],
                env, resolver, NotRun).resp

ValidateOnSame == ValidateCall(req.Config, env, resolver).resp

C26_EntryPointsAgree ==
    /\ ValidateReturned => (resp.Valid <=> PassesGate(ExecuteOnSame))
    /\ PostPublishReturned => (PassesGate(resp) <=> ValidateOnSame.Valid)

\* credentials and path are fine and the host resolves to a public and a
\* private address: Validate reports the repository, Execute stops at its gate
C26_Witness ==
    /\ ValidateReturned
    /\ resolver = LookupAnswer(<<PublicIP, PrivateIP>>)
    /\ Cfg.Username # <<>> /\ Cfg.Password # <<>>
    /\ validateDistPath(Cfg.DistPath).isNil
    /\ resp.Valid = FALSE
    /\ ~ PassesGate(ExecuteOnSame)

\* ------------------------------------------------------------------------
\* C27: the gate of Execute stops at the first violation in the order
\* repository URL, dist path, username, password, and its Error names that
\* violation alone: a bad URL hides a bad path and missing credentials, a
\* missing username hides a missing password; the URL validator runs, and
\* asks the resolver where the URL gets that far, also when credentials are
\* missing.
\* ------------------------------------------------------------------------
URLViolation == validateRepositoryURL(Cfg.Repository, resolver).err

PathViolation == validateDistPath(Cfg.DistPath)

FirstViolation ==
    IF ~ URLViolation.isNil THEN <<"invalid repository URL: ">> \o URLViolation.msg
    ELSE IF ~ PathViolation.isNil THEN <<"invalid dist path: ">> \o PathViolation.msg
    ELSE IF Cfg.Username = <<>> THEN <<"username is required">>
    ELSE <<"password is required">>

\* the URL passes every check that comes before the resolver is asked
ReachesResolver ==
    /\ urlParse(Cfg.Repository).ok
    /\ urlParse(Cfg.Repository).Scheme = HTTPS
    /\ ~ ExactlyLocal(Hostname(urlParse(Cfg.Repository).Host))

C27_GateShortCircuits ==
    /\ (PostPublishReturned /\ HasViolation) =>
          resp.Error = <<"configuration validation failed", ": ">> \o FirstViolation
    /\ (PostPublishReturned /\ ReachesResolver) =>
          lookups = <<Hostname(urlParse(Cfg.Repository).Host)>>

\* everything is wrong at once and only the URL is named
C27_Witness ==
    /\ PostPublishReturned
    /\ ~ URLViolation.isNil
    /\ ~ PathViolation.isNil
    /\ Cfg.Username = <<>>
    /\ Cfg.Password = <<>>
    /\ resp.Error = <<"configuration validation failed", ": ",
                      "invalid repository URL: ", "only HTTPS URLs are allowed",
                      " (got ", "h", "t", "t", "p", ")">>

====
